---- MODULE Spec2Model ----
(***************************************************************************)
(* useWebSocketManager (hooks/useWebSocketManager.js): the reconnecting    *)
(* WebSocket hook of the clients page, its message dispatcher and the      *)
(* patches it applies to the getClients query cache.                       *)
(*                                                                         *)
(* Browser semantics assumed for WebSocket: readyState is CONNECTING,      *)
(* OPEN, CLOSING or CLOSED; close() moves a CONNECTING or OPEN socket to   *)
(* CLOSING and is a no-op otherwise; the close event fires exactly once    *)
(* per socket; the open event fires only on a CONNECTING socket and the    *)
(* message event only on an OPEN one.                                      *)
(*                                                                         *)
(* showToast is a parameter of the hook: the hook's actions record the     *)
(* calls they make, and UseToast (components/UseToast.jsx), the toast      *)
(* state behind such a function, is modelled by actions of its own. The    *)
(* last part is ClientSelection (services/ClientSelection.js).             *)
(***************************************************************************)
EXTENDS Integers, Sequences, FiniteSets, TLC

VARIABLES
    phase,                \* "init" | "mounted" | "unmounted" (useEffect lifecycle)
    socks,                \* readyState of every WebSocket created so far, by creation order
    wsRef,                \* wsRef.current: index into socks, 0 for null
    reconnectDelayRef,    \* reconnectDelayRef.current (ms)
    reconnectTimeoutRef,  \* reconnectTimeoutRef.current: id of the last setTimeout, 0 for null
    heartbeatIntervalRef, \* heartbeatIntervalRef.current: id of the last setInterval, 0 for null
    timers,               \* pending setTimeout callbacks: records [id, wait]
    intervals,            \* active setInterval callbacks: records [id, ws]
    handles,              \* number of timer/interval ids handed out so far
    cache,                \* getClients query data: sequence of client records
    frames,               \* number of frames dispatched so far
    fails,                \* observer: close events since the last open event
    fires,                \* observer: reconnect timers fired since the last open event
    openedSock,           \* observer: the last socket whose open event fired, 0 if none
    firstOpen,            \* observer: the first socket whose open event fired, 0 if none
    stopInfo,             \* observer: controller state and socket count when the cleanup ran
    last,                 \* observer: what the last handler did
    log,                  \* observer: the frames delivered so far, in delivery order
    toastLog,             \* observer: the showToast calls made so far, in call order
    toast,                \* UseToast: the toast state, NoToast for null
    dismissals,           \* UseToast: pending setTimeout callbacks: records [id, due]
    shown,                \* UseToast: number of showToast calls so far
    clock,                \* the time (ms)
    tlast,                \* observer: the last showToast call and the dismissals since
    selected,             \* ClientSelection: this.selected, in insertion order
    selectedIds,          \* ClientSelection: the array last handed to setSelectedIds
    slast                 \* observer: the last two ClientSelection calls

hookVars == <<phase, socks, wsRef, reconnectDelayRef, reconnectTimeoutRef,
              heartbeatIntervalRef, timers, intervals, handles, cache, frames,
              fails, fires, openedSock, firstOpen, stopInfo, last>>

orderVars == <<log, toastLog>>

notifierVars == <<toast, dismissals, shown, clock, tlast>>

selectionVars == <<selected, selectedIds, slast>>

vars == <<hookVars, orderVars, notifierVars, selectionVars>>

----------------------------------------------------------------------------
(* Bounds *)

MaxSockets == 7
MaxSocketsWithFrames == 2
MaxFrames == 2
MaxToasts == 3
MaxTicks == 6
MaxClientId == 3
MaxClients == 2

----------------------------------------------------------------------------
(* Program constants *)

InitialDelay == 1000
OpenDelay == 1000
MaxDelay == 30000
ToastDuration == 3000

Min(a, b) == IF a < b THEN a ELSE b

RECURSIVE Pow2(_)
Pow2(n) == IF n <= 0 THEN 1 ELSE 2 * Pow2(n - 1)

----------------------------------------------------------------------------
(* JavaScript values carried by a frame *)

JsNum(n) == [t |-> "number", n |-> n, s |-> <<>>]
JsStr(s) == [t |-> "string", n |-> 0, s |-> s]
JsUndefined == [t |-> "undefined", n |-> 0, s |-> <<>>]
JsNull == [t |-> "null", n |-> 0, s |-> <<>>]

Digits == {"0", "1", "2", "3"}
DigitVal(c) == CASE c = "0" -> 0 [] c = "1" -> 1 [] c = "2" -> 2 [] OTHER -> 3

RECURSIVE TrimLeft(_)
TrimLeft(s) == IF s # <<>> /\ Head(s) = " " THEN TrimLeft(Tail(s)) ELSE s

RECURSIVE TrimRight(_)
TrimRight(s) ==
    IF s # <<>> /\ s[Len(s)] = " " THEN TrimRight(SubSeq(s, 1, Len(s) - 1)) ELSE s

RECURSIVE DecimalValue(_)
DecimalValue(s) ==
    IF s = <<>> THEN 0 ELSE 10 * DecimalValue(SubSeq(s, 1, Len(s) - 1)) + DigitVal(s[Len(s)])

NaN == [nan |-> TRUE, n |-> 0]
Num(n) == [nan |-> FALSE, n |-> n]

\* Number(v): numbers pass, null is 0, undefined is NaN, a string is trimmed
\* and read as a decimal literal ("" is 0, anything else is NaN).
ToNumber(v) ==
    CASE v.t = "number" -> Num(v.n)
      [] v.t = "null" -> Num(0)
      [] v.t = "undefined" -> NaN
      [] OTHER ->
            LET str == TrimRight(TrimLeft(v.s))
            IN  IF \A i \in 1..Len(str) : str[i] \in Digits
                THEN Num(DecimalValue(str))
                ELSE NaN

\* a === b on numbers: NaN equals nothing
StrictEq(a, b) == ~a.nan /\ ~b.nan /\ a.n = b.n

\* draft.find(pred): index of the first element satisfying pred, 0 for undefined
FindIndex(draft, n) ==
    LET hits == {i \in 1..Len(draft) : StrictEq(Num(draft[i].id), n)}
    IN  IF hits = {} THEN 0 ELSE CHOOSE i \in hits : \A j \in hits : i <= j

Truthy(str) == str # ""

----------------------------------------------------------------------------
(* Frames the server can push; "" stands for an absent field *)

NoFrame ==
    [json |-> FALSE, null |-> FALSE, event |-> "", id |-> JsUndefined, client |-> "",
     state |-> "", client_id |-> JsUndefined, billing_date |-> "", status |-> ""]

IdInputs ==
    {JsNum(1), JsStr(<<"2">>), JsStr(<<" ", "1">>), JsNum(3), JsStr(<<"1", "a">>), JsUndefined}

StateUpdates ==
    {[NoFrame EXCEPT !.json = TRUE, !.event = "state_update", !.id = i,
                     !.client = "pppoe-1", !.state = st] :
        i \in IdInputs, st \in {"UP", "DOWN", "UNKNOWN"}}

BillingUpdates ==
    {[NoFrame EXCEPT !.json = TRUE, !.event = "billing_update", !.client_id = i,
                     !.billing_date = d, !.status = st] :
        i \in {JsNum(1), JsStr(<<"2">>), JsNum(3)},
        d \in {"", "2025-02-01"}, st \in {"", "PAID", "UNPAID"}}

BulkUpdates == {[NoFrame EXCEPT !.json = TRUE, !.event = "billing_update_bulk"]}

UnknownFrames ==
    {[NoFrame EXCEPT !.json = TRUE, !.event = "pong"], [NoFrame EXCEPT !.json = TRUE]}

MalformedFrames == {NoFrame}

\* the frame "null": JSON.parse returns null and data.event throws a TypeError
NullFrames == {[NoFrame EXCEPT !.json = TRUE, !.null = TRUE]}

Frames == StateUpdates \cup BillingUpdates \cup BulkUpdates \cup UnknownFrames
              \cup MalformedFrames \cup NullFrames

InitialCache ==
    << [id |-> 1, name |-> "Ana", state |-> "UP", status |-> "PAID",
        billing_date |-> "2025-01-01"],
       [id |-> 2, name |-> "Ben", state |-> "DOWN", status |-> "UNPAID",
        billing_date |-> "2025-01-01"] >>

Toast(message, type) == [message |-> message, type |-> type]

Idle(op, s) ==
    [op |-> op, s |-> s, ev |-> NoFrame, pre |-> cache, toasts |-> <<>>,
     inval |-> {}, threw |-> FALSE, ping |-> FALSE,
     afterThrow |-> (last.threw /\ last.s = s)]

----------------------------------------------------------------------------
(* The message handler: ws.onmessage *)

ToastType_AlwaysError(state) == "error"

\* data.state === "DOWN" ? "error" : "success"
ToastType(state) == IF state = "DOWN" THEN "error" ELSE "success"

StateDiffers_Always(current, incoming) == TRUE

\* client.state !== data.state
StateDiffers(current, incoming) == current # incoming

FoundClient_First(draft, n) == IF Len(draft) > 0 THEN 1 ELSE 0

\* draft.find((c) => c.id === Number(id))
FoundClient(draft, n) == FindIndex(draft, n)

PatchState_AlsoStatus(client, state) == [client EXCEPT !.state = state, !.status = "UNKNOWN"]

\* client.state = data.state
PatchState(client, state) == [client EXCEPT !.state = state]

\* the recipe of case "state_update"
StateUpdateRecipe(draft, data) ==
    LET i == FoundClient(draft, ToNumber(data.id))
    IN  IF i # 0 /\ StateDiffers(draft[i].state, data.state)
        THEN [draft  |-> [draft EXCEPT ![i] = PatchState(@, data.state)],
              toasts |-> << Toast(<<data.client, data.state>>, ToastType(data.state)) >>]
        ELSE [draft |-> draft, toasts |-> <<>>]

MissingClient_Upsert(draft, data) ==
    [draft  |-> Append(draft, [id |-> 0, name |-> "", state |-> "", status |-> data.status,
                               billing_date |-> data.billing_date]),
     toasts |-> <<>>]

\* if (!client) return;
MissingClient(draft, data) == [draft |-> draft, toasts |-> <<>>]

StatusChanged_IfPresent(current, incoming) == Truthy(incoming)

\* data.status && client.status !== data.status
StatusChanged(current, incoming) == Truthy(incoming) /\ current # incoming

\* the recipe of case "billing_update"
BillingUpdateRecipe(draft, data) ==
    LET i == FoundClient(draft, ToNumber(data.client_id))
    IN  IF i = 0
        THEN MissingClient(draft, data)
        ELSE LET dated == IF Truthy(data.billing_date)
                          THEN [draft EXCEPT ![i].billing_date = data.billing_date]
                          ELSE draft
             IN  IF StatusChanged(dated[i].status, data.status)
                 THEN [draft  |-> [dated EXCEPT ![i].status = data.status],
                       toasts |-> << Toast(<<dated[i].name, data.status>>, "info") >>]
                 ELSE [draft |-> dated, toasts |-> <<>>]

BulkUpdate_Patching(draft) ==
    [draft  |-> [i \in 1..Len(draft) |-> [draft[i] EXCEPT !.status = "PAID"]],
     toasts |-> << Toast(<<"Bulk billing update completed.">>, "success") >>,
     inval  |-> {}]

ListTag == [type |-> "Clients", id |-> "LIST"]

\* case "billing_update_bulk": a toast and invalidateTags([{Clients, LIST}])
BulkUpdate(draft) ==
    [draft  |-> draft,
     toasts |-> << Toast(<<"Bulk billing update completed.">>, "success") >>,
     inval  |-> {ListTag}]

UnknownEvent_Refetch(draft) == [draft |-> draft, toasts |-> <<>>, inval |-> {ListTag}]

\* default: console.log in development builds, nothing else
UnknownEvent(draft) == [draft |-> draft, toasts |-> <<>>, inval |-> {}]

\* switch (data.event) on a parsed frame
Dispatch(draft, data) ==
    CASE data.event = "state_update" ->
            LET r == StateUpdateRecipe(draft, data)
            IN  [draft |-> r.draft, toasts |-> r.toasts, inval |-> {}]
      [] data.event = "billing_update" ->
            LET r == BillingUpdateRecipe(draft, data)
            IN  [draft |-> r.draft, toasts |-> r.toasts, inval |-> {}]
      [] data.event = "billing_update_bulk" -> BulkUpdate(draft)
      [] OTHER -> UnknownEvent(draft)

SocksOnThrow_Closes(ss, s) == [ss EXCEPT ![s] = "CLOSING"]

\* an exception that escapes an event handler is reported to the page and
\* leaves the socket as it is: the handler has no catch that closes it
SocksOnThrow(ss, s) == ss

Delivers_AlsoClosing(readyState) == readyState \in {"OPEN", "CLOSING"}

\* the message event reaches ws.onmessage only while the socket is OPEN; the
\* handler itself does not compare ws with wsRef.current
Delivers(readyState) == readyState = "OPEN"

QueryData_Stale(current) == InitialCache

\* updateQueryData("getClients", undefined, recipe) runs the recipe on the
\* query data as it is now
QueryData(current) == current

\* ws.onmessage: JSON.parse(event.data) throws on a malformed frame, and
\* data.event throws on the frame "null", before anything else of the handler
\* has run; nothing in the handler catches
OnMessage(s, ev) ==
    /\ s \in DOMAIN socks /\ Delivers(socks[s])
    /\ frames < MaxFrames
    /\ frames' = frames + 1
    /\ IF ev.json /\ ~ev.null
       THEN LET r == Dispatch(QueryData(cache), ev)
            IN  /\ cache' = r.draft
                /\ socks' = socks
                /\ last' = [Idle("message", s) EXCEPT !.ev = ev, !.toasts = r.toasts,
                                                      !.inval = r.inval]
       ELSE /\ cache' = cache
            /\ socks' = SocksOnThrow(socks, s)
            /\ last' = [Idle("message", s) EXCEPT !.ev = ev, !.threw = TRUE]
    /\ UNCHANGED <<phase, wsRef, reconnectDelayRef, reconnectTimeoutRef,
                   heartbeatIntervalRef, timers, intervals, handles,
                   fails, fires, openedSock, firstOpen, stopInfo>>

----------------------------------------------------------------------------
(* The connection lifecycle *)

\* WebSocket.close(): CONNECTING or OPEN becomes CLOSING, otherwise a no-op
WsClose(ss, s) ==
    IF s = 0 THEN ss
    ELSE [ss EXCEPT ![s] = IF @ \in {"CONNECTING", "OPEN"} THEN "CLOSING" ELSE @]

\* connect(): close the socket wsRef holds, create a new one, store it
Connect ==
    /\ socks' = Append(WsClose(socks, wsRef), "CONNECTING")
    /\ wsRef' = Len(socks) + 1

DelayOnOpen_Keep(d) == d

\* reconnectDelayRef.current = 1000
DelayOnOpen(d) == OpenDelay

DelayOnFire_NoCap(d) == d * 2

DelayOnFire_NoDoubling(d) == Min(d, MaxDelay)

\* Math.min(reconnectDelayRef.current * 2, 30000)
DelayOnFire(d) == Min(d * 2, MaxDelay)

\* clearInterval(id) / clearTimeout(id)
Clear(set, id) == {x \in set : x.id # id}

TimersOnFire_Repeating(ts, t) == ts

\* setTimeout is one-shot: the fired callback is no longer pending
TimersOnFire(ts, t) == ts \ {t}

TimersOnUnmount_Kept(ts, ref) == ts

\* clearTimeout(reconnectTimeoutRef.current)
TimersOnUnmount(ts, ref) == Clear(ts, ref)

ScheduleReconnect_Never == UNCHANGED <<timers, reconnectTimeoutRef, handles>>

\* scheduleReconnect(): setTimeout(..., reconnectDelayRef.current)
ScheduleReconnect ==
    /\ timers' = timers \cup {[id |-> handles + 1, wait |-> reconnectDelayRef]}
    /\ reconnectTimeoutRef' = handles + 1
    /\ handles' = handles + 1

\* the state of the controller, in the vocabulary of the state machine
ControllerState ==
    IF wsRef = 0 THEN "Idle"
    ELSE CASE socks[wsRef] = "CONNECTING" -> "Connecting"
           [] socks[wsRef] = "OPEN" -> "Open"
           [] socks[wsRef] = "CLOSING" -> "Closing"
           [] OTHER -> IF timers # {} THEN "Backoff" ELSE "Closed"

\* useEffect(() => { connect(); ... }, [])
Mount ==
    /\ phase = "init"
    /\ phase' = "mounted"
    /\ Connect
    /\ last' = Idle("mount", Len(socks) + 1)
    /\ UNCHANGED <<reconnectDelayRef, reconnectTimeoutRef, heartbeatIntervalRef, timers,
                   intervals, handles, cache, frames, fails, fires, openedSock,
                   firstOpen, stopInfo>>

\* ws.onopen
OnOpen(s) ==
    /\ s \in DOMAIN socks /\ socks[s] = "CONNECTING"
    /\ socks' = [socks EXCEPT ![s] = "OPEN"]
    /\ reconnectDelayRef' = DelayOnOpen(reconnectDelayRef)
    /\ intervals' = Clear(intervals, heartbeatIntervalRef)
                        \cup {[id |-> handles + 1, ws |-> s]}
    /\ heartbeatIntervalRef' = handles + 1
    /\ handles' = handles + 1
    /\ fails' = 0
    /\ fires' = 0
    /\ openedSock' = s
    /\ firstOpen' = IF firstOpen = 0 THEN s ELSE firstOpen
    /\ last' = Idle("open", s)
    /\ UNCHANGED <<phase, wsRef, reconnectTimeoutRef, timers, cache, frames, stopInfo>>

MaySend_Always(readyState) == TRUE

\* if (ws.readyState === WebSocket.OPEN)
MaySend(readyState) == readyState = "OPEN"

\* the callback of setInterval in ws.onopen
HeartbeatTick(i) ==
    /\ i \in intervals
    /\ last' = [Idle("tick", i.ws) EXCEPT !.ping = MaySend(socks[i.ws])]
    /\ UNCHANGED <<phase, socks, wsRef, reconnectDelayRef, reconnectTimeoutRef,
                   heartbeatIntervalRef, timers, intervals, handles, cache, frames,
                   fails, fires, openedSock, firstOpen, stopInfo>>

\* ws.onerror: the transport reports an error on a live socket; the handler
\* calls ws.close(), and the close event follows
OnError(s) ==
    /\ s \in DOMAIN socks /\ socks[s] \in {"CONNECTING", "OPEN"}
    /\ socks' = WsClose(socks, s)
    /\ last' = Idle("error", s)
    /\ UNCHANGED <<phase, wsRef, reconnectDelayRef, reconnectTimeoutRef,
                   heartbeatIntervalRef, timers, intervals, handles, cache, frames,
                   fails, fires, openedSock, firstOpen, stopInfo>>

IntervalsOnClose_Kept(is, ref) == is

\* clearInterval(heartbeatIntervalRef.current) in ws.onclose
IntervalsOnClose(is, ref) == Clear(is, ref)

ToastsOnClose_Warn == << Toast(<<"WebSocket closed">>, "error") >>

\* console.warn only: the close handler shows nothing to the user
ToastsOnClose == <<>>

DelayOnClose_Doubles(d) == Min(d * 2, MaxDelay)

\* ws.onclose and scheduleReconnect read reconnectDelayRef.current and do not
\* write it
DelayOnClose(d) == d

\* ws.onclose: the close event of a socket the server closed (OPEN) or that
\* close() was called on (CLOSING)
OnClose(s) ==
    /\ s \in DOMAIN socks /\ socks[s] \in {"OPEN", "CLOSING"}
    /\ socks' = [socks EXCEPT ![s] = "CLOSED"]
    /\ intervals' = IntervalsOnClose(intervals, heartbeatIntervalRef)
    /\ ScheduleReconnect
    /\ fails' = fails + 1
    /\ reconnectDelayRef' = DelayOnClose(reconnectDelayRef)
    /\ last' = [Idle("close", s) EXCEPT !.toasts = ToastsOnClose]
    /\ UNCHANGED <<phase, wsRef, heartbeatIntervalRef, cache, frames,
                   fires, openedSock, firstOpen, stopInfo>>

\* the callback of setTimeout in scheduleReconnect: connect(), then double
TimerFire(t, cap) ==
    /\ t \in timers
    /\ Len(socks) < cap
    /\ timers' = TimersOnFire(timers, t)
    /\ Connect
    /\ reconnectDelayRef' = DelayOnFire(reconnectDelayRef)
    /\ fires' = fires + 1
    /\ last' = Idle("timer", Len(socks) + 1)
    /\ UNCHANGED <<phase, reconnectTimeoutRef, heartbeatIntervalRef, intervals, handles,
                   cache, frames, fails, openedSock, firstOpen, stopInfo>>

\* the cleanup returned by the effect
Unmount ==
    /\ phase = "mounted"
    /\ phase' = "unmounted"
    /\ socks' = WsClose(socks, wsRef)
    /\ intervals' = Clear(intervals, heartbeatIntervalRef)
    /\ timers' = TimersOnUnmount(timers, reconnectTimeoutRef)
    /\ stopInfo' = [state |-> ControllerState, socks |-> Len(socks)]
    /\ last' = Idle("unmount", wsRef)
    /\ UNCHANGED <<wsRef, reconnectDelayRef, reconnectTimeoutRef, heartbeatIntervalRef,
                   handles, cache, frames, fails, fires, openedSock, firstOpen>>

----------------------------------------------------------------------------
(* UseToast (components/UseToast.jsx): the toast state and its dismissal    *)
(* timers. Time advances in steps of one second, and a setTimeout callback *)
(* runs when it is due: the clock does not pass a pending callback.         *)

NoToast == [message |-> <<>>, type |-> "null"]

\* the arguments of a showToast call; the type "" stands for an omitted one
ToastCalls == {[message |-> m, type |-> t] : m \in {<<"saved">>, <<"failed">>},
                                             t \in {"", "error"}}

\* showToast = (message, type = "success")
TypeOrDefault(type) == IF type = "" THEN "success" ELSE type

Display_KeepCurrent(current, new) == IF current = NoToast THEN new ELSE current

\* setToast({ message, type }) replaces whatever is displayed
Display(current, new) == new

DismissDue_Late(now) == now + 2 * ToastDuration

\* setTimeout(() => setToast(null), 3000)
DismissDue(now) == now + ToastDuration

\* showToast: no earlier timeout is cleared
ShowToast(call) ==
    /\ shown < MaxToasts
    /\ toast' = Display(toast, Toast(call.message, TypeOrDefault(call.type)))
    /\ dismissals' = dismissals \cup {[id |-> shown + 1, due |-> DismissDue(clock)]}
    /\ shown' = shown + 1
    /\ tlast' = [call |-> Toast(call.message, TypeOrDefault(call.type)), at |-> clock,
                 fired |-> FALSE, age |-> -1]
    /\ UNCHANGED clock

\* the callback of a showToast timeout: setToast(null), whichever toast is displayed
DismissFire(d) ==
    /\ d \in dismissals /\ d.due <= clock
    /\ toast' = NoToast
    /\ dismissals' = dismissals \ {d}
    /\ tlast' = [tlast EXCEPT !.fired = TRUE,
                              !.age = IF toast = NoToast THEN -1 ELSE clock - tlast.at]
    /\ UNCHANGED <<shown, clock>>

\* one second passes
ClockTick ==
    /\ clock < MaxTicks * 1000
    /\ \A d \in dismissals : d.due > clock
    /\ clock' = clock + 1000
    /\ UNCHANGED <<toast, dismissals, shown, tlast>>

----------------------------------------------------------------------------
(* ClientSelection (features/clients/services/ClientSelection.js). A Set    *)
(* iterates in insertion order: this.selected is the sequence of its        *)
(* members in that order.                                                   *)

ClientIds == 1..MaxClientId

Members(seq) == {seq[i] : i \in 1..Len(seq)}

\* the lists of clients of a page: no id twice
ClientLists ==
    {l \in UNION {[1..n -> ClientIds] : n \in 0..MaxClients} :
        \A i, j \in 1..Len(l) : i # j => l[i] # l[j]}

\* Set.prototype.has
Has(sel, id) == id \in Members(sel)

\* Set.prototype.delete
Delete(sel, id) == SelectSeq(sel, LAMBDA x : x # id)

\* Set.prototype.add
Add(sel, id) == IF Has(sel, id) THEN sel ELSE Append(sel, id)

\* clients.forEach((c) => this.selected.add(c.id))
RECURSIVE AddAll(_, _)
AddAll(sel, clients) ==
    IF clients = <<>> THEN sel ELSE AddAll(Add(sel, Head(clients)), Tail(clients))

\* [...this.selected]
Spread(sel) == [i \in 1..Len(sel) |-> sel[i]]

Called(op, arg) ==
    [op |-> op, arg |-> arg, pre |-> selected,
     pop |-> slast.op, parg |-> slast.arg, ppre |-> slast.pre]

toggleSelection(id) ==
    /\ selected' = IF Has(selected, id) THEN Delete(selected, id) ELSE Add(selected, id)
    /\ selectedIds' = Spread(selected')
    /\ slast' = Called("toggleSelection", <<id>>)

toggleSelectAll(clients) ==
    /\ selected' = IF Len(selected) = Len(clients) THEN <<>> ELSE AddAll(selected, clients)
    /\ selectedIds' = Spread(selected')
    /\ slast' = Called("toggleSelectAll", clients)

clear ==
    /\ selected' = <<>>
    /\ selectedIds' = <<>>
    /\ slast' = Called("clear", <<>>)

----------------------------------------------------------------------------

Init ==
    /\ phase = "init"
    /\ socks = <<>>
    /\ wsRef = 0
    /\ reconnectDelayRef = InitialDelay
    /\ reconnectTimeoutRef = 0
    /\ heartbeatIntervalRef = 0
    /\ timers = {}
    /\ intervals = {}
    /\ handles = 0
    /\ cache = InitialCache
    /\ frames = 0
    /\ fails = 0
    /\ fires = 0
    /\ openedSock = 0
    /\ firstOpen = 0
    /\ stopInfo = [state |-> "", socks |-> 0]
    /\ last = [op |-> "init", s |-> 0, ev |-> NoFrame, pre |-> InitialCache,
               toasts |-> <<>>, inval |-> {}, threw |-> FALSE, ping |-> FALSE,
               afterThrow |-> FALSE]
    /\ log = <<>>
    /\ toastLog = <<>>
    /\ toast = NoToast
    /\ dismissals = {}
    /\ shown = 0
    /\ clock = 0
    /\ tlast = [call |-> NoToast, at |-> 0, fired |-> FALSE, age |-> -1]
    /\ selected = <<>>
    /\ selectedIds = <<>>
    /\ slast = [op |-> "new", arg |-> <<>>, pre |-> <<>>,
                pop |-> "", parg |-> <<>>, ppre |-> <<>>]

\* what a step of the hook leaves alone
besideHook == <<orderVars, notifierVars, selectionVars>>

Next ==
    \/ Mount /\ UNCHANGED besideHook
    \/ Unmount /\ UNCHANGED besideHook
    \/ \E s \in 1..MaxSockets : OnOpen(s) /\ UNCHANGED besideHook
    \/ \E s \in 1..MaxSockets : OnError(s) /\ UNCHANGED besideHook
    \/ \E s \in 1..MaxSockets : OnClose(s) /\ UNCHANGED besideHook
    \/ \E t \in timers : TimerFire(t, MaxSocketsWithFrames) /\ UNCHANGED besideHook
    \/ \E i \in intervals : HeartbeatTick(i) /\ UNCHANGED besideHook
    \/ \E s \in 1..MaxSockets, ev \in Frames : OnMessage(s, ev) /\ UNCHANGED besideHook

\* the hook with the server pushing frames
Spec == Init /\ [][Next]_vars

LifecycleNext ==
    \/ Mount /\ UNCHANGED besideHook
    \/ Unmount /\ UNCHANGED besideHook
    \/ \E s \in 1..MaxSockets : OnOpen(s) /\ UNCHANGED besideHook
    \/ \E s \in 1..MaxSockets : OnError(s) /\ UNCHANGED besideHook
    \/ \E s \in 1..MaxSockets : OnClose(s) /\ UNCHANGED besideHook
    \/ \E t \in timers : TimerFire(t, MaxSockets) /\ UNCHANGED besideHook
    \/ \E i \in intervals : HeartbeatTick(i) /\ UNCHANGED besideHook

\* the connection lifecycle alone, long enough for the delay to reach its ceiling
Lifecycle == Init /\ [][LifecycleNext]_vars

\* the close event that follows close() on a socket
CloseEventDue ==
    \E s \in DOMAIN socks : socks[s] = "CLOSING" /\ OnClose(s) /\ UNCHANGED besideHook

\* the event loop runs every callback that is due: a pending setTimeout
\* callback fires, and the close event of a closing socket is delivered
LiveLifecycle ==
    /\ Lifecycle
    /\ WF_vars(\E t \in timers : TimerFire(t, MaxSockets) /\ UNCHANGED besideHook)
    /\ WF_vars(CloseEventDue)

\* the frames of one connection, with the delivery order on record
OrderedNext ==
    \/ Mount /\ UNCHANGED besideHook
    \/ \E s \in 1..MaxSockets : OnOpen(s) /\ UNCHANGED besideHook
    \/ \E s \in 1..MaxSockets, ev \in Frames :
          /\ OnMessage(s, ev)
          /\ log' = Append(log, ev)
          /\ toastLog' = toastLog \o last'.toasts
          /\ UNCHANGED <<notifierVars, selectionVars>>

Ordered == Init /\ [][OrderedNext]_vars

NotifierNext ==
    \/ \E call \in ToastCalls :
          ShowToast(call) /\ UNCHANGED <<hookVars, orderVars, selectionVars>>
    \/ \E d \in dismissals :
          DismissFire(d) /\ UNCHANGED <<hookVars, orderVars, selectionVars>>
    \/ ClockTick /\ UNCHANGED <<hookVars, orderVars, selectionVars>>

\* the toasts of a page, whoever calls showToast
Notifier == Init /\ [][NotifierNext]_vars

SelectionNext ==
    \/ \E id \in ClientIds :
          toggleSelection(id) /\ UNCHANGED <<hookVars, orderVars, notifierVars>>
    \/ \E clients \in ClientLists :
          toggleSelectAll(clients) /\ UNCHANGED <<hookVars, orderVars, notifierVars>>
    \/ clear /\ UNCHANGED <<hookVars, orderVars, notifierVars>>

\* a ClientSelection object under any sequence of calls
Selection == Init /\ [][SelectionNext]_vars

----------------------------------------------------------------------------
(* Vocabulary of the properties *)

Live(s) == socks[s] \in {"CONNECTING", "OPEN"}

\* the wait of the reconnect timer scheduled last is w, and it is pending
ScheduledWait(w) == \E t \in timers : t.id = reconnectTimeoutRef /\ t.wait = w

\* min(floor * 2^n, ceiling) with the floor 1000 and the ceiling 30000
Backoff(n) == Min(1000 * Pow2(n), 30000)

\* the records of a collection that a frame's id names
Named(coll, v) == {i \in 1..Len(coll) : StrictEq(Num(coll[i].id), ToNumber(v))}

Dispatched(kind) == last.op = "message" /\ last.ev.json /\ last.ev.event = kind

----------------------------------------------------------------------------
(* Reconnection controller *)

\* C1: at most one connection is connecting or open at any time, and a
\* connection is created only when every connection created before it has
\* closed: every connection older than another one is CLOSED.
C1_OneLiveConnection ==
    /\ Cardinality({s \in DOMAIN socks : Live(s)}) <= 1
    /\ \A s, u \in DOMAIN socks : s < u => socks[s] = "CLOSED"

C1_Witness ==
    /\ Len(socks) >= 3
    /\ socks[Len(socks)] = "OPEN"
    /\ openedSock = Len(socks)
    /\ firstOpen < openedSock /\ firstOpen # 0

\* C2: once the cleanup has run, in whatever state, no reconnect timer is
\* pending and no connection is created.
C2_NoBackoffAfterStop ==
    phase = "unmounted" => timers = {} /\ Len(socks) = stopInfo.socks

\* C3: when the cleanup runs in Backoff the pending reconnect timer is
\* cancelled and no connection is created afterwards.
C3_StopInBackoff ==
    stopInfo.state = "Backoff" =>
        /\ timers = {}
        /\ Len(socks) = stopInfo.socks
        /\ \A s \in DOMAIN socks : socks[s] = "CLOSED"

C3_Witness ==
    /\ phase = "unmounted"
    /\ stopInfo.state = "Backoff"
    /\ stopInfo.socks >= 2
    /\ reconnectTimeoutRef # 0

\* C4 as stated: after N consecutive closed connections without an open the
\* delay held is min(1000 * 2^N, 30000).
C4_DelayAfterFailures == reconnectDelayRef = Backoff(fails)

\* C4 amended: the delay held is min(1000 * 2^K, 30000) for the K reconnect
\* timers fired since the last open (or the start); the N-th consecutive
\* failure schedules its reconnect with min(1000 * 2^(N-1), 30000) and leaves
\* the delay at that value until that timer fires, when K becomes N.
C4_DelayAfterFires ==
    /\ reconnectDelayRef = Backoff(fires)
    /\ fires \in {fails - 1, fails}
    /\ fires >= 0
    /\ timers # {} => fires = fails - 1
    /\ \A t \in timers : t.wait = Backoff(fails - 1)

C4_Witness ==
    /\ fails >= 5
    /\ fires = fails
    /\ reconnectDelayRef = 30000
    /\ openedSock = 0

\* C5: right after an open event the delay is 1000 and it stays 1000 while
\* the connection is open; the close of a connection that had opened
\* schedules the reconnect with a wait of 1000.
C5_OpenResetsDelay ==
    /\ last.op = "open" => reconnectDelayRef = 1000
    /\ \A s \in DOMAIN socks : socks[s] = "OPEN" => reconnectDelayRef = 1000
    /\ (last.op = "close" /\ last.s = openedSock) => ScheduledWait(1000)

C5_Witness ==
    /\ last.op = "close"
    /\ last.s = openedSock
    /\ firstOpen = openedSock
    /\ openedSock >= 3
    /\ ScheduledWait(1000)

\* C6: from a fresh start, the first failed attempt schedules a wait of 1000,
\* the second failed attempt a wait of 2000, the third attempt opening sets
\* the delay to 1000, and its close schedules a wait of 1000.
C6_BackoffScenario ==
    /\ (last.op = "close" /\ last.s = 1 /\ firstOpen = 0) => ScheduledWait(1000)
    /\ (last.op = "close" /\ last.s = 2 /\ firstOpen = 0) => ScheduledWait(2000)
    /\ (last.op = "open" /\ last.s = 3 /\ firstOpen = 3) => reconnectDelayRef = 1000
    /\ (last.op = "close" /\ last.s = 3 /\ firstOpen = 3) => ScheduledWait(1000)

C6_Witness ==
    /\ last.op = "close" /\ last.s = 3 /\ firstOpen = 3
    /\ phase = "mounted"
    /\ fails = 1

----------------------------------------------------------------------------
(* Dispatcher and cache patches *)

\* C7: a state_update naming a cached record whose state differs sets that
\* record's state to the event's and emits exactly one notification, of
\* severity error if and only if the new state is DOWN, success otherwise.
C7_StateUpdateApplies ==
    Dispatched("state_update") =>
        \A i \in Named(last.pre, last.ev.id) :
            last.pre[i].state # last.ev.state =>
                /\ cache[i].state = last.ev.state
                /\ Len(last.toasts) = 1
                /\ last.toasts[1].type = "error" <=> last.ev.state = "DOWN"
                /\ last.ev.state # "DOWN" => last.toasts[1].type = "success"

C7_Witness ==
    /\ Dispatched("state_update")
    /\ last.ev.id = JsStr(<<"2">>)
    /\ last.pre[2].state = "DOWN"
    /\ cache[2].state = "UNKNOWN"
    /\ last.toasts = << Toast(<<"pppoe-1", "UNKNOWN">>, "success") >>

\* C8: a state_update carrying the state the record it names already has
\* changes nothing in the cache and emits no notification.
C8_RedundantStateUpdate ==
    Dispatched("state_update") =>
        \A i \in Named(last.pre, last.ev.id) :
            last.pre[i].state = last.ev.state => cache = last.pre /\ last.toasts = <<>>

C8_Witness ==
    /\ Dispatched("state_update")
    /\ frames = 2
    /\ last.ev.id = JsNum(1)
    /\ last.ev.state = "DOWN"
    /\ last.pre[1].state = "DOWN"
    /\ cache = last.pre

\* C9: a state_update or billing_update whose id is the id of no cached
\* record leaves the cache unchanged, emits no notification and does not throw.
C9_UnknownIdDropped ==
    /\ (Dispatched("state_update") /\ Named(last.pre, last.ev.id) = {}) =>
            cache = last.pre /\ last.toasts = <<>> /\ ~last.threw
    /\ (Dispatched("billing_update") /\ Named(last.pre, last.ev.client_id) = {}) =>
            cache = last.pre /\ last.toasts = <<>> /\ ~last.threw

C9_Witness ==
    /\ Dispatched("billing_update")
    /\ last.ev.client_id = JsNum(3)
    /\ last.ev.status = "UNPAID"
    /\ last.ev.billing_date = "2025-02-01"
    /\ cache = last.pre

\* C10: a billing_update_bulk invalidates the tag Clients/LIST and modifies
\* no record of the cached collection.
C10_BulkInvalidates ==
    Dispatched("billing_update_bulk") => last.inval = {ListTag} /\ cache = last.pre

C10_Witness ==
    /\ Dispatched("billing_update_bulk")
    /\ last.inval = {ListTag}
    /\ frames = 2
    /\ cache # InitialCache

----------------------------------------------------------------------------
(* Dispatcher: malformed and unknown frames *)

Malformed == last.op = "message" /\ ~last.ev.json

\* C11: handling a frame that is not parseable as JSON raises no error out
\* of the message handler.
C11_MalformedDoesNotThrow == Malformed => ~last.threw

\* C12: a malformed frame leaves the connection open and leaves the cache,
\* the backoff delay, the reconnect timer and the heartbeat timer unchanged;
\* a frame that follows it on the same connection is still received.
C12_MalformedIsNoConnectionError ==
    /\ [](Malformed => /\ socks[last.s] = "OPEN"
                       /\ cache = last.pre
                       /\ last.toasts = <<>> /\ last.inval = {})
    /\ [][(frames' = frames + 1 /\ ~last'.ev.json) =>
            UNCHANGED <<socks, wsRef, cache, reconnectDelayRef, reconnectTimeoutRef,
                        heartbeatIntervalRef, timers, intervals, phase>>]_vars
    /\ []((last.op = "message" /\ last.afterThrow) => socks[last.s] = "OPEN")

C12_Witness ==
    /\ Dispatched("state_update")
    /\ last.afterThrow
    /\ last.pre = InitialCache
    /\ cache[1].state = "DOWN"
    /\ Len(last.toasts) = 1

KnownKinds == {"state_update", "billing_update", "billing_update_bulk"}

\* C13: a parsed frame whose discriminator is none of the three known kinds,
\* or is missing, changes nothing in the cache, emits no notification,
\* invalidates nothing and leaves the connection open.
C13_UnknownKindDropped ==
    (last.op = "message" /\ last.ev.json /\ last.ev.event \notin KnownKinds) =>
        /\ cache = last.pre
        /\ last.toasts = <<>>
        /\ last.inval = {}
        /\ socks[last.s] = "OPEN"

C13_Witness ==
    /\ last.op = "message" /\ last.ev.json /\ ~last.ev.null
    /\ last.ev.event = "pong"
    /\ frames = 2
    /\ cache # InitialCache
    /\ cache = last.pre

----------------------------------------------------------------------------
(* Cache patches *)

Patched == Dispatched("state_update") \/ Dispatched("billing_update")

Ids(coll) == [i \in 1..Len(coll) |-> coll[i].id]

\* C14: a state_update or billing_update dispatch neither inserts nor
\* removes a cache entry: the ids of the collection are the same after it.
C14_NoInsertNoRemove == Patched => Ids(cache) = Ids(last.pre)

C14_Witness ==
    /\ Dispatched("billing_update")
    /\ Named(last.pre, last.ev.client_id) = {}
    /\ last.ev.status = "PAID"
    /\ frames = 2
    /\ last.pre # InitialCache
    /\ Ids(cache) = <<1, 2>>

\* C15: a state_update changes at most the state of the record it names, a
\* billing_update at most the billing_date and status of the record it
\* names; every other field and every other record is unchanged.
C15_OnlyNamedFields ==
    /\ Dispatched("state_update") =>
          \A i \in 1..Len(last.pre) :
              \/ cache[i] = last.pre[i]
              \/ /\ i \in Named(last.pre, last.ev.id)
                 /\ cache[i] = [last.pre[i] EXCEPT !.state = cache[i].state]
    /\ Dispatched("billing_update") =>
          \A i \in 1..Len(last.pre) :
              \/ cache[i] = last.pre[i]
              \/ /\ i \in Named(last.pre, last.ev.client_id)
                 /\ cache[i] = [last.pre[i] EXCEPT !.billing_date = cache[i].billing_date,
                                                   !.status = cache[i].status]
    /\ Patched => Cardinality({i \in 1..Len(last.pre) : cache[i] # last.pre[i]}) <= 1

C15_Witness ==
    /\ Dispatched("billing_update")
    /\ last.ev.client_id = JsStr(<<"2">>)
    /\ cache[2].billing_date = "2025-02-01" /\ cache[2].status = "PAID"
    /\ last.pre[2].billing_date = "2025-01-01" /\ last.pre[2].status = "UNPAID"
    /\ cache[1] = last.pre[1]

\* C16: a billing_update for a cached record sets billing_date when the event
\* carries one; it sets status and emits exactly one info notification naming
\* the client when the event carries a status different from the record's,
\* and otherwise leaves status alone and emits nothing.
C16_BillingUpdateApplies ==
    Dispatched("billing_update") =>
        \A i \in Named(last.pre, last.ev.client_id) :
            /\ cache[i].billing_date =
                  IF last.ev.billing_date # "" THEN last.ev.billing_date
                  ELSE last.pre[i].billing_date
            /\ IF last.ev.status # "" /\ last.ev.status # last.pre[i].status
               THEN /\ cache[i].status = last.ev.status
                    /\ last.toasts = << Toast(<<last.pre[i].name, last.ev.status>>, "info") >>
               ELSE /\ cache[i].status = last.pre[i].status
                    /\ last.toasts = <<>>

C16_Witness ==
    /\ Dispatched("billing_update")
    /\ last.ev.client_id = JsNum(1)
    /\ last.ev.billing_date = "2025-02-01"
    /\ last.ev.status = "PAID"
    /\ last.pre[1].status = "PAID"
    /\ cache[1].billing_date = "2025-02-01"
    /\ last.toasts = <<>>

\* C17: a notification is emitted only by the dispatch of a state_update that
\* changed a state, of a billing_update that changed a status, or of a
\* billing_update_bulk; no other handler emits one.
C17_ToastsOnlyOnChange ==
    last.toasts # <<>> =>
        \/ /\ Dispatched("state_update")
           /\ \E i \in 1..Len(last.pre) : cache[i].state # last.pre[i].state
        \/ /\ Dispatched("billing_update")
           /\ \E i \in 1..Len(last.pre) : cache[i].status # last.pre[i].status
        \/ Dispatched("billing_update_bulk")

C17_Witness ==
    /\ last.op = "close"
    /\ last.toasts = <<>>
    /\ frames = 2
    /\ cache[2].state = "UP"
    /\ cache[1].status = "UNPAID"

----------------------------------------------------------------------------
(* Recovery and heartbeat *)

\* C18: while the hook is mounted, a closed or closing current connection is
\* eventually replaced by a new connection attempt, provided due callbacks run
\* (and, in this model, the socket budget is not used up).
C18_FailureLeadsToReconnect ==
    (phase = "mounted" /\ wsRef # 0 /\ ~Live(wsRef) /\ Len(socks) < MaxSockets)
        ~> (phase = "unmounted" \/ (wsRef # 0 /\ Live(wsRef)))

C18_Witness ==
    /\ phase = "mounted"
    /\ last.op = "timer"
    /\ Len(socks) >= 3
    /\ socks[wsRef] = "CONNECTING"
    /\ openedSock = 0

\* C19: a ping is sent only on a connection that is OPEN at that moment.
C19_PingOnlyWhenOpen == last.ping => socks[last.s] = "OPEN"

C19_Witness ==
    /\ last.op = "tick"
    /\ ~last.ping
    /\ socks[last.s] = "CLOSING"

\* C20: at most one heartbeat timer is scheduled, it is the one
\* heartbeatIntervalRef holds, and it probes the current connection, which
\* has not closed.
C20_OneHeartbeatPerConnection ==
    /\ Cardinality(intervals) <= 1
    /\ \A i \in intervals :
          /\ i.id = heartbeatIntervalRef
          /\ i.ws = wsRef
          /\ socks[i.ws] # "CLOSED"

C20_Witness ==
    /\ intervals # {}
    /\ Len(socks) >= 3
    /\ firstOpen # 0 /\ firstOpen < openedSock
    /\ \A i \in intervals : i.ws = wsRef /\ socks[i.ws] = "OPEN"

----------------------------------------------------------------------------
(* Notifications *)

\* C21: a toast is not dismissed before its own 3 s have elapsed: whenever a
\* dismissal removes a displayed toast, that toast was shown at least 3000 ms
\* before.
C21_FullDuration == tlast.age # -1 => tlast.age >= ToastDuration

\* C22: a displayed toast was shown at most 3000 ms ago, and once more than
\* 3000 ms have passed since the last showToast call nothing is displayed.
C22_DismissalBounded ==
    /\ toast # NoToast => clock - tlast.at <= ToastDuration
    /\ (shown > 0 /\ clock - tlast.at > ToastDuration) => toast = NoToast

C22_Witness ==
    /\ shown >= 2
    /\ toast = NoToast
    /\ dismissals = {}
    /\ clock - tlast.at = ToastDuration

\* C27: as long as no dismissal has fired since the last showToast call, the
\* one toast displayed is the message and the severity of that call.
C27_MostRecentDisplayed == (shown > 0 /\ ~tlast.fired) => toast = tlast.call

C27_Witness ==
    /\ shown >= 2
    /\ ~tlast.fired
    /\ Cardinality(dismissals) >= 2
    /\ toast = Toast(<<"failed">>, "error")
    /\ clock > 0

----------------------------------------------------------------------------
(* Replay, active connection, delivery order *)

\* the frame delivered last is the frame delivered just before it
Redelivered == Len(log) >= 2 /\ log[Len(log)] = log[Len(log) - 1]

\* the handlers applied to a collection in the order of a sequence of frames;
\* a frame whose handler throws applies nothing
RECURSIVE ApplyAll(_, _)
ApplyAll(acc, es) ==
    IF es = <<>> THEN acc
    ELSE IF Head(es).json /\ ~Head(es).null
         THEN LET r == Dispatch(acc.cache, Head(es))
              IN  ApplyAll([cache |-> r.draft, toasts |-> acc.toasts \o r.toasts], Tail(es))
         ELSE ApplyAll(acc, Tail(es))

InOrder(es) == ApplyAll([cache |-> InitialCache, toasts |-> <<>>], es)

\* C23 as stated: a state_update delivered a second time in a row for a record
\* of the collection leaves the cache unchanged and emits one more toast.
C23_ReplayNotifiesAgain ==
    (Redelivered /\ Dispatched("state_update") /\ Named(last.pre, last.ev.id) # {})
        => (cache = last.pre /\ Len(last.toasts) = 1)

\* C23: a state_update delivered a second time in a row for a record of the
\* collection leaves the cache unchanged and emits no toast.
C23_ReplayIsSilent ==
    (Redelivered /\ Dispatched("state_update") /\ Named(last.pre, last.ev.id) # {})
        => (cache = last.pre /\ last.toasts = <<>>)

C23_Witness ==
    /\ Redelivered
    /\ Dispatched("state_update")
    /\ Named(last.pre, last.ev.id) # {}
    /\ Len(toastLog) = 1
    /\ last.pre # InitialCache

----------------------------------------------------------------------------
(* Backoff delay and reconnect timer *)

\* C25: the step on which a reconnect timer fires doubles the delay up to
\* 30000 and starts a connection; the step of a close event leaves the delay
\* as it is, schedules a timer that waits that delay and leaves no heartbeat
\* scheduled; the step of an error event leaves the delay as it is.
C25_DoubledAtFire ==
    [][ /\ fires' = fires + 1 =>
              /\ reconnectDelayRef' = Min(reconnectDelayRef * 2, 30000)
              /\ Len(socks') = Len(socks) + 1
        /\ fails' = fails + 1 =>
              /\ reconnectDelayRef' = reconnectDelayRef
              /\ \E t \in timers' \ timers : t.wait = reconnectDelayRef
              /\ \A i \in intervals' : i.id # heartbeatIntervalRef
        /\ last'.op = "error" => reconnectDelayRef' = reconnectDelayRef ]_vars

C25_Witness ==
    /\ last.op = "close"
    /\ fails = 3
    /\ fires = 2
    /\ reconnectDelayRef = 4000
    /\ ScheduledWait(4000)

\* C28: the delay is always one of 1000, 2000, 4000, 8000, 16000, 30000.
C28_DelayValues == reconnectDelayRef \in {1000, 2000, 4000, 8000, 16000, 30000}

C28_Witness ==
    /\ reconnectDelayRef = 16000
    /\ firstOpen # 0
    /\ last.op = "timer"

\* C29: at most one reconnect timer is pending; a timer is scheduled only
\* when none is pending and only on the step that closes a connection, and
\* that step schedules exactly one.
C29_OneReconnectTimer ==
    /\ [](Cardinality(timers) <= 1)
    /\ [][ /\ timers' \ timers # {} =>
                 /\ timers = {}
                 /\ \E s \in DOMAIN socks : socks[s] # "CLOSED" /\ socks'[s] = "CLOSED"
           /\ \A s \in DOMAIN socks :
                 (socks[s] # "CLOSED" /\ socks'[s] = "CLOSED")
                     => Cardinality(timers' \ timers) = 1 ]_vars

C29_Witness ==
    /\ last.op = "close"
    /\ phase = "mounted"
    /\ firstOpen # 0
    /\ openedSock # last.s
    /\ Cardinality(timers) = 1

----------------------------------------------------------------------------
(* Selection *)

\* C30: after toggleSelectAll(clients) on a page that is not empty the
\* selection is empty if every id of clients was selected before, and
\* contains every id of clients otherwise; after toggleSelection(id) twice in
\* a row the selection has the members it started from.
C30_SelectAllToggle ==
    /\ (slast.op = "toggleSelectAll" /\ slast.arg # <<>>) =>
          IF Members(slast.arg) \subseteq Members(slast.pre)
          THEN selected = <<>>
          ELSE Members(slast.arg) \subseteq Members(selected)
    /\ (slast.op = "toggleSelection" /\ slast.pop = "toggleSelection"
            /\ slast.arg = slast.parg)
          => Members(selected) = Members(slast.ppre)

====
